---- MODULE Spec2Model ----
(***************************************************************************)
(* A model of prometheus/distributions.pyx: the Distribution contract      *)
(* (from_sample, summarize, from_summaries, copy, freeze, thaw) and its    *)
(* variants.  Objects live in a heap (children of Mixture / Multivariate   *)
(* are held by reference).  Floating point values are exact rationals      *)
(* [n, d]; the value with d = 0 is NaN.  csqrt rounds down to a multiple   *)
(* of 1/SqrtScale, numpy.log is a table rounded to 1/10.                   *)
(***************************************************************************)
EXTENDS Integers, Sequences, FiniteSets, TLC

VARIABLES heap, last, steps, pc, ghost, ret

vars == <<heap, last, steps, pc, ghost, ret>>

\* ------------------------------------------------------------------ bounds
MaxLen == 2
MaxSteps == 3
MaxBatches == 2
MaxData == 3
SqrtScale == 100
MaxColumnSteps == 2

\* Values the items and the weights of a call are drawn from.
Items == {1, 2}
Weights == {0, 1}

\* --------------------------------------------------------------- numerics
Abs(x) == IF x < 0 THEN -x ELSE x

RECURSIVE GCD(_, _)
GCD(a, b) == IF b = 0 THEN a ELSE GCD(b, a % b)

NaN == [n |-> 0, d |-> 0]

IsNaN(x) == x.d = 0

Rat(n, d) ==
    IF d = 0 THEN NaN
    ELSE LET g == GCD(Abs(n), Abs(d))
             s == IF d < 0 THEN -1 ELSE 1
         IN  [n |-> (s * n) \div g, d |-> (s * d) \div g]

R(i) == [n |-> i, d |-> 1]

\* a/b + c/d over the least common denominator (keeps the integers small)
RAdd(a, b) ==
    IF IsNaN(a) \/ IsNaN(b) THEN NaN
    ELSE LET g == GCD(a.d, b.d)
         IN  Rat(a.n * (b.d \div g) + b.n * (a.d \div g), (a.d \div g) * b.d)

RNeg(a) == [n |-> 0 - a.n, d |-> a.d]

RSub(a, b) == RAdd(a, RNeg(b))

RMul(a, b) ==
    IF IsNaN(a) \/ IsNaN(b) THEN NaN
    ELSE LET g1 == GCD(Abs(a.n), b.d)
             g2 == GCD(Abs(b.n), a.d)
         IN  Rat((a.n \div g1) * (b.n \div g2), (a.d \div g2) * (b.d \div g1))

\* numpy division: 0/0 is nan (a warning, no exception).  The divisors of the
\* model are sums of non-negative weights and positive means, so x/0 only
\* happens with x = 0.
RDiv(a, b) ==
    IF IsNaN(a) \/ IsNaN(b) \/ b.n = 0 THEN NaN
    ELSE RMul(a, IF b.n < 0 THEN [n |-> 0 - b.d, d |-> 0 - b.n] ELSE [n |-> b.d, d |-> b.n])

\* Comparisons with nan are False.
RLe(a, b) == ~IsNaN(a) /\ ~IsNaN(b) /\ RSub(a, b).n <= 0

RLt(a, b) == ~IsNaN(a) /\ ~IsNaN(b) /\ RSub(a, b).n < 0

RMin(a, b) == IF RLe(a, b) THEN a ELSE b

RMax(a, b) == IF RLe(a, b) THEN b ELSE a

\* inertia in [0,1]: 0, 1/2, 1
Inertias == {R(0), Rat(1, 2), R(1)}

\* prior*inertia + fit*(1-inertia)
Blend(prior, fit, inertia) == RAdd(RMul(prior, inertia), RMul(fit, RSub(R(1), inertia)))

RECURSIVE SeqSum(_)
SeqSum(s) == IF Len(s) = 0 THEN R(0) ELSE RAdd(Head(s), SeqSum(Tail(s)))

RECURSIVE SeqMin(_)
SeqMin(s) == IF Len(s) = 1 THEN s[1] ELSE RMin(s[1], SeqMin(Tail(s)))

RECURSIVE SeqMax(_)
SeqMax(s) == IF Len(s) = 1 THEN s[1] ELSE RMax(s[1], SeqMax(Tail(s)))

Dot(a, b) == SeqSum([i \in 1..Len(a) |-> RMul(a[i], b[i])])

Ones(n) == [i \in 1..n |-> R(1)]

\* libc sqrt, rounded down to a multiple of 1/SqrtScale
csqrt(x) ==
    LET k == CHOOSE k \in 0..(SqrtScale * ((x.n \div x.d) + 1)) :
                 /\ k * k * x.d <= x.n * SqrtScale * SqrtScale
                 /\ (k + 1) * (k + 1) * x.d > x.n * SqrtScale * SqrtScale
    IN  Rat(k, SqrtScale)

\* numpy.log on the items of the model (1..4), rounded to 1/10
LogTable == <<0, 7, 11, 14>>

NpLog(x) == Rat(LogTable[x.n], 10)

\* numpy.log( items ), elementwise
NpLogAll(items) == [i \in 1..Len(items) |-> NpLog(items[i])]

\* numpy.average(items, weights=weights): ZeroDivisionError when the weights
\* sum to zero; the callers test AverageFails first.
AverageFails(weights) == SeqSum(weights).n = 0

Average(items, weights) == RDiv(Dot(items, weights), SeqSum(weights))

\* ---------------------------------------------------------------- weights
\* The weights argument: None, a Python list or a numpy array.
NoneW == [kind |-> "None", v |-> <<>>]

ListW(s) == [kind |-> "list", v |-> s]

ArrW(s) == [kind |-> "ndarray", v |-> s]

\* Python truth value of `weights`: None and empty are false, an ndarray of
\* two or more elements raises ValueError.
TruthRaises(w) == w.kind = "ndarray" /\ Len(w.v) >= 2

Truthy(w) ==
    CASE w.kind = "None" -> FALSE
      [] w.kind = "list" -> Len(w.v) > 0
      [] OTHER -> Len(w.v) = 1 /\ (IsNaN(w.v[1]) \/ w.v[1].n # 0)

\* weights, or ones when None (numpy.ones_like(items))
WOrOnes(w, n) == IF w.kind = "None" THEN Ones(n) ELSE w.v

Ok(o) == [o |-> o, err |-> "none"]

Raise(o, e) == [o |-> o, err |-> e]

\* ---------------------------------------------------------------- objects
\* An object: [name, frozen, parameters, summaries].  __init__ of
\* ExtremeValueDistribution, LambdaDistribution, MixtureDistribution and
\* MultivariateDistribution never assigns self.summaries: the attribute
\* keeps the value None of an unassigned cdef attribute.
NoObj == [name |-> "None"]

SummariesUnset(self) ==
    self.name \in {"ExtremeValueDistribution", "LambdaDistribution",
                   "MixtureDistribution", "MultivariateDistribution"}

UniformDistribution(start, end, frozen) ==
    [name |-> "UniformDistribution", frozen |-> frozen,
     parameters |-> <<start, end>>, summaries |-> <<>>]

NormalDistribution(mean, std, frozen) ==
    [name |-> "NormalDistribution", frozen |-> frozen,
     parameters |-> <<mean, std>>, summaries |-> <<>>]

LogNormalDistribution(mu, sigma, frozen) ==
    [name |-> "LogNormalDistribution", frozen |-> frozen,
     parameters |-> <<mu, sigma>>, summaries |-> <<>>]

ExtremeValueDistribution(mu, sigma, epsilon, frozen) ==
    [name |-> "ExtremeValueDistribution", frozen |-> frozen,
     parameters |-> <<mu, sigma, epsilon>>, summaries |-> <<>>]

ExponentialDistribution(rate, frozen) ==
    [name |-> "ExponentialDistribution", frozen |-> frozen,
     parameters |-> <<rate>>, summaries |-> <<>>]

EmptyDict == [c \in {} |-> R(0)]

DiscreteDistribution(characters, frozen) ==
    [name |-> "DiscreteDistribution", frozen |-> frozen,
     parameters |-> <<characters>>, summaries |-> <<EmptyDict, R(0)>>]

LambdaDistribution(lambda_funct, frozen) ==
    [name |-> "LambdaDistribution", frozen |-> frozen,
     parameters |-> <<lambda_funct>>, summaries |-> <<>>]

\* weights / sum(weights) when `weights` is true, else ones(n) / n
KernelWeights(weights, n) ==
    IF Truthy(weights)
    THEN LET t == SeqSum(weights.v) IN [i \in 1..Len(weights.v) |-> RDiv(weights.v[i], t)]
    ELSE [i \in 1..n |-> RDiv(R(1), R(n))]

GaussianKernelDensity(points, bandwidth, weights, frozen) ==
    [name |-> "GaussianKernelDensity", frozen |-> frozen,
     parameters |-> <<points, bandwidth, KernelWeights(weights, Len(points))>>,
     summaries |-> <<>>]

UniformKernelDensity(points, bandwidth, weights, frozen) ==
    [name |-> "UniformKernelDensity", frozen |-> frozen,
     parameters |-> <<points, bandwidth, KernelWeights(weights, Len(points))>>,
     summaries |-> <<>>]

TriangleKernelDensity(points, bandwidth, weights, frozen) ==
    [name |-> "TriangleKernelDensity", frozen |-> frozen,
     parameters |-> <<points, bandwidth, KernelWeights(weights, Len(points))>>,
     summaries |-> <<>>]

\* distributions: the ids of the children in the heap
MixtureDistribution(distributions, weights, frozen) ==
    [name |-> "MixtureDistribution", frozen |-> frozen,
     parameters |-> <<distributions, KernelWeights(weights, Len(distributions))>>,
     summaries |-> <<>>]

MultivariateDistribution(distributions, weights, frozen) ==
    [name |-> "MultivariateDistribution", frozen |-> frozen,
     parameters |-> <<distributions,
                      IF Truthy(weights) THEN weights.v ELSE Ones(Len(distributions))>>,
     summaries |-> <<>>]

\* ------------------------------------------------------------ Distribution
Distribution_freeze(self) == [self EXCEPT !.frozen = TRUE]

Distribution_thaw(self) == [self EXCEPT !.frozen = FALSE]

\* Mutant: the frozen test left out.
Distribution_from_sample_AlwaysRaises(self, items, weights) ==
    Raise(self, "NotImplementedError")

Distribution_from_sample(self, items, weights) ==
    IF self.frozen THEN Ok(self) ELSE Raise(self, "NotImplementedError")

Distribution_summarize(self, items, weights) ==
    IF SummariesUnset(self) THEN Raise(self, "TypeError")
    ELSE IF Len(self.summaries) = 0
    THEN Ok([self EXCEPT !.summaries = <<[items |-> items, weights |-> weights]>>])
    ELSE LET prior == self.summaries[1]
             all == prior.items \o items
         IN  IF weights.kind = "None"
             THEN Ok([self EXCEPT !.summaries = <<[items |-> all, weights |-> NoneW]>>])
             ELSE IF prior.weights.kind = "None"
             THEN Raise(self, "ValueError")
             ELSE Ok([self EXCEPT !.summaries =
                         <<[items |-> all, weights |-> ArrW(prior.weights.v \o weights.v)]>>])

\* --------------------------------------------------------------- Uniform
RECURSIVE PositiveWeight(_, _)
PositiveWeight(items, w) ==
    IF Len(items) = 0 \/ Len(w) = 0 THEN <<>>
    ELSE (IF RLt(R(0), Head(w)) THEN <<Head(items)>> ELSE <<>>)
         \o PositiveWeight(Tail(items), Tail(w))

UniformDistribution_from_sample(self, items, weights, inertia) ==
    IF self.frozen THEN Ok(self)
    ELSE LET kept == IF weights.kind = "None" THEN items
                     ELSE PositiveWeight(items, weights.v)
         IN  IF Len(kept) = 0 THEN Ok(self)
             ELSE Ok([self EXCEPT !.parameters =
                        <<Blend(self.parameters[1], SeqMin(kept), inertia),
                          Blend(self.parameters[2], SeqMax(kept), inertia)>>])

\* A variant that keeps the last batch only:
\* self.summaries = [[ items.min(), items.max() ]] in place of the append.
UniformDistribution_summarize_LastBatch(self, items, weights) ==
    LET kept == IF weights.kind = "None" THEN items
                ELSE PositiveWeight(items, weights.v)
    IN  IF Len(kept) = 0 THEN Ok(self)
        ELSE Ok([self EXCEPT !.summaries = <<<<SeqMin(kept), SeqMax(kept)>>>>])

UniformDistribution_summarize(self, items, weights) ==
    LET kept == IF weights.kind = "None" THEN items
                ELSE PositiveWeight(items, weights.v)
    IN  IF Len(kept) = 0 THEN Ok(self)
        ELSE Ok([self EXCEPT !.summaries = Append(@, <<SeqMin(kept), SeqMax(kept)>>)])

\* Mutant: the columns of the summaries mixed up (start from the maxima,
\* end from the minima).
UniformDistribution_from_summaries_Swapped(self, inertia) ==
    IF self.frozen THEN Ok(self)
    ELSE IF Len(self.summaries) = 0 THEN Raise(self, "IndexError")
    ELSE LET mins == [i \in 1..Len(self.summaries) |-> self.summaries[i][1]]
             maxs == [i \in 1..Len(self.summaries) |-> self.summaries[i][2]]
         IN  Ok([self EXCEPT
                   !.parameters = <<Blend(self.parameters[1], SeqMax(maxs), inertia),
                                    Blend(self.parameters[2], SeqMin(mins), inertia)>>,
                   !.summaries = <<>>])

UniformDistribution_from_summaries(self, inertia) ==
    IF self.frozen THEN Ok(self)
    ELSE IF Len(self.summaries) = 0 THEN Raise(self, "IndexError")
    ELSE LET mins == [i \in 1..Len(self.summaries) |-> self.summaries[i][1]]
             maxs == [i \in 1..Len(self.summaries) |-> self.summaries[i][2]]
         IN  Ok([self EXCEPT
                   !.parameters = <<Blend(self.parameters[1], SeqMin(mins), inertia),
                                    Blend(self.parameters[2], SeqMax(maxs), inertia)>>,
                   !.summaries = <<>>])

\* ---------------------------------------------------------------- Normal
\* min_std=0.01, the default of from_sample
min_std == Rat(1, 100)

NonZero(w) == Cardinality({i \in 1..Len(w) : IsNaN(w[i]) \/ w[i].n # 0})

\* numpy.dot(items ** 2 - mean ** 2, weights) / weights.sum()
WeightedVariance(items, mean, w) ==
    RDiv(Dot([i \in 1..Len(items) |-> RSub(RMul(items[i], items[i]), RMul(mean, mean))], w),
         SeqSum(w))

\* Σ (v + m**2) * w / Σ w - mean**2 over the summaries (m, v, w)
MergedVariance(summaries, mean) ==
    RSub(RDiv(SeqSum([i \in 1..Len(summaries) |->
                        RMul(RAdd(summaries[i][2], RMul(summaries[i][1], summaries[i][1])),
                             summaries[i][3])]),
              SeqSum([i \in 1..Len(summaries) |-> summaries[i][3]])),
         RMul(mean, mean))

StdOf(variance) == IF RLe(R(0), variance) THEN csqrt(variance) ELSE R(0)

\* Mutant: the inertia ignored, the fit replaces the parameters.
NormalDistribution_from_sample_NoInertia(self, items, weights, inertia) ==
    IF Len(items) = 0 \/ self.frozen THEN Ok(self)
    ELSE LET w == WOrOnes(weights, Len(items))
         IN  IF SeqSum(w).n = 0 THEN Ok(self)
             ELSE LET mean == Average(items, w)
                      std == IF NonZero(w) > 1
                             THEN StdOf(WeightedVariance(items, mean, w))
                             ELSE self.parameters[2]
                  IN  Ok([self EXCEPT !.parameters = <<mean, RMax(std, min_std)>>])

NormalDistribution_from_sample(self, items, weights, inertia) ==
    IF Len(items) = 0 \/ self.frozen THEN Ok(self)
    ELSE LET w == WOrOnes(weights, Len(items))
         IN  IF SeqSum(w).n = 0 THEN Ok(self)
             ELSE LET mean == Average(items, w)
                      std == IF NonZero(w) > 1
                             THEN StdOf(WeightedVariance(items, mean, w))
                             ELSE self.parameters[2]
                      floored == RMax(std, min_std)
                  IN  Ok([self EXCEPT !.parameters =
                             <<Blend(self.parameters[1], mean, inertia),
                               Blend(self.parameters[2], floored, inertia)>>])

NormalDistribution_summarize(self, items, weights) ==
    IF weights.kind # "None" /\ SeqSum(weights.v).n = 0 THEN Ok(self)
    ELSE LET w == WOrOnes(weights, Len(items))
         IN  IF AverageFails(w) THEN Raise(self, "ZeroDivisionError")
             ELSE LET mean == Average(items, w)
                  IN  Ok([self EXCEPT !.summaries =
                             Append(@, <<mean, WeightedVariance(items, mean, w), SeqSum(w)>>)])

\* A variant that empties the summaries when frozen.
NormalDistribution_from_summaries_ClearsWhenFrozen(self, inertia) ==
    IF Len(self.summaries) = 0 THEN Ok(self)
    ELSE IF self.frozen THEN Ok([self EXCEPT !.summaries = <<>>])
    ELSE LET s == self.summaries
             mean == Average([i \in 1..Len(s) |-> s[i][1]], [i \in 1..Len(s) |-> s[i][3]])
             std == StdOf(MergedVariance(s, mean))
         IN  Ok([self EXCEPT
                   !.parameters = <<Blend(self.parameters[1], mean, inertia),
                                    Blend(self.parameters[2], std, inertia)>>,
                   !.summaries = <<>>])

NormalDistribution_from_summaries(self, inertia) ==
    IF Len(self.summaries) = 0 \/ self.frozen THEN Ok(self)
    ELSE LET s == self.summaries
             mean == Average([i \in 1..Len(s) |-> s[i][1]], [i \in 1..Len(s) |-> s[i][3]])
             std == StdOf(MergedVariance(s, mean))
         IN  Ok([self EXCEPT
                   !.parameters = <<Blend(self.parameters[1], mean, inertia),
                                    Blend(self.parameters[2], std, inertia)>>,
                   !.summaries = <<>>])

\* ------------------------------------------------------------- LogNormal
LogNormalDistribution_from_sample(self, items, weights, inertia) ==
    IF Len(items) = 0 \/ self.frozen THEN Ok(self)
    ELSE LET w == WOrOnes(weights, Len(items))
             logs == NpLogAll(items)
         IN  IF SeqSum(w).n = 0 THEN Ok(self)
             ELSE LET mean == Average(logs, w)
                      std == IF NonZero(w) > 1
                             THEN StdOf(WeightedVariance(logs, mean, w))
                             ELSE self.parameters[2]
                      floored == RMax(std, min_std)
                  IN  Ok([self EXCEPT !.parameters =
                             <<Blend(self.parameters[1], mean, inertia),
                               Blend(self.parameters[2], floored, inertia)>>])

LogNormalDistribution_summarize(self, items, weights) ==
    LET w == WOrOnes(weights, Len(items))
        logs == NpLogAll(items)
    IN  IF AverageFails(w) THEN Raise(self, "ZeroDivisionError")
        ELSE LET mean == Average(logs, w)
             IN  Ok([self EXCEPT !.summaries =
                        Append(@, <<mean, WeightedVariance(logs, mean, w), SeqSum(w)>>)])

LogNormalDistribution_from_summaries(self, inertia) ==
    IF Len(self.summaries) = 0 \/ self.frozen THEN Ok(self)
    ELSE LET s == self.summaries
             mean == Average([i \in 1..Len(s) |-> s[i][1]], [i \in 1..Len(s) |-> s[i][3]])
             std == StdOf(MergedVariance(s, mean))
         IN  Ok([self EXCEPT
                   !.parameters = <<Blend(self.parameters[1], mean, inertia),
                                    Blend(self.parameters[2], std, inertia)>>,
                   !.summaries = <<>>])

\* ----------------------------------------------------------- Exponential
ExponentialDistribution_from_sample(self, items, weights, inertia) ==
    IF Len(items) = 0 \/ self.frozen THEN Ok(self)
    ELSE LET w == WOrOnes(weights, Len(items))
         IN  IF SeqSum(w).n = 0 THEN Ok(self)
             ELSE LET rate == RDiv(R(1), Average(items, w))
                  IN  Ok([self EXCEPT !.parameters =
                             <<Blend(self.parameters[1], rate, inertia)>>])

ExponentialDistribution_summarize(self, items, weights) ==
    LET w == WOrOnes(weights, Len(items))
    IN  IF AverageFails(w) THEN Raise(self, "ZeroDivisionError")
        ELSE Ok([self EXCEPT !.summaries = Append(@, <<Average(items, w), SeqSum(w)>>)])

\* A variant without the last line, self.summaries = [].
ExponentialDistribution_from_summaries_KeepsSummaries(self, inertia) ==
    IF Len(self.summaries) = 0 \/ self.frozen THEN Ok(self)
    ELSE LET s == self.summaries
             mean == Average([i \in 1..Len(s) |-> s[i][1]], [i \in 1..Len(s) |-> s[i][2]])
             rate == RDiv(R(1), mean)
         IN  Ok([self EXCEPT !.parameters = <<Blend(self.parameters[1], rate, inertia)>>])

ExponentialDistribution_from_summaries(self, inertia) ==
    IF Len(self.summaries) = 0 \/ self.frozen THEN Ok(self)
    ELSE LET s == self.summaries
             mean == Average([i \in 1..Len(s) |-> s[i][1]], [i \in 1..Len(s) |-> s[i][2]])
             rate == RDiv(R(1), mean)
         IN  Ok([self EXCEPT
                   !.parameters = <<Blend(self.parameters[1], rate, inertia)>>,
                   !.summaries = <<>>])

\* -------------------------------------------------------------- Discrete
\* characters[character] += weight, or = weight on KeyError
DictAdd(characters, character, weight) ==
    IF character \in DOMAIN characters
    THEN [characters EXCEPT ![character] = RAdd(@, weight)]
    ELSE [c \in DOMAIN characters \cup {character} |->
            IF c = character THEN weight ELSE characters[c]]

RECURSIVE CountCharacters(_, _, _)
CountCharacters(characters, items, w) ==
    IF Len(items) = 0 \/ Len(w) = 0 THEN characters
    ELSE CountCharacters(DictAdd(characters, Head(items), Head(w)), Tail(items), Tail(w))

\* for character, weight in prior_characters.items(): += weight * inertia
AddPrior(characters, prior_characters, inertia) ==
    [c \in DOMAIN characters \cup DOMAIN prior_characters |->
        IF c \notin DOMAIN prior_characters THEN characters[c]
        ELSE IF c \in DOMAIN characters
             THEN RAdd(characters[c], RMul(prior_characters[c], inertia))
             ELSE RMul(prior_characters[c], inertia)]

DiscreteDistribution_from_sample(self, items, weights, inertia) ==
    IF Len(items) = 0 \/ self.frozen THEN Ok(self)
    ELSE LET n == Len(items)
             w == IF weights.kind = "None" THEN [i \in 1..n |-> RDiv(R(1), R(n))]
                  ELSE [i \in 1..Len(weights.v) |-> RDiv(weights.v[i], SeqSum(weights.v))]
             counted == CountCharacters(EmptyDict, items, w)
             scaled == [c \in DOMAIN counted |-> RMul(counted[c], RSub(R(1), inertia))]
         IN  Ok([self EXCEPT !.parameters = <<AddPrior(scaled, self.parameters[1], inertia)>>])

\* Mutant: the counts go into the parameters' dictionary.
DiscreteDistribution_summarize_IntoParameters(self, items, weights) ==
    LET w == WOrOnes(weights, Len(items))
    IN  Ok([self EXCEPT
              !.parameters = <<CountCharacters(self.parameters[1], items, w)>>,
              !.summaries = <<@[1], RAdd(@[2], SeqSum(w))>>])

DiscreteDistribution_summarize(self, items, weights) ==
    LET w == WOrOnes(weights, Len(items))
    IN  Ok([self EXCEPT !.summaries =
               <<CountCharacters(self.summaries[1], items, w),
                 RAdd(self.summaries[2], SeqSum(w))>>])

DiscreteDistribution_from_summaries(self, inertia) ==
    IF Len(self.summaries) = 0 \/ self.frozen THEN Ok(self)
    ELSE LET characters == self.summaries[1]
             total_weight == self.summaries[2]
             scaled == [c \in DOMAIN characters |->
                          RMul(RDiv(characters[c], total_weight), RSub(R(1), inertia))]
         IN  Ok([self EXCEPT
                   !.parameters = <<IF RLt(R(0), inertia)
                                    THEN AddPrior(scaled, self.parameters[1], inertia)
                                    ELSE scaled>>,
                   !.summaries = <<EmptyDict, R(0)>>])

\* ------------------------------------------------------- kernel densities
GaussianKernelDensity_from_sample(self, points, weights, inertia) ==
    IF self.frozen THEN Ok(self)
    ELSE IF TruthRaises(weights) THEN Raise(self, "ValueError")
    ELSE LET w == KernelWeights(weights, Len(points))
         IN  IF inertia = R(0)
             THEN Ok([self EXCEPT !.parameters = <<points, @[2], w>>])
             ELSE Ok([self EXCEPT !.parameters =
                        <<@[1] \o points, @[2],
                          [i \in 1..Len(@[3]) |-> RMul(@[3][i], inertia)]
                          \o [i \in 1..Len(w) |-> RMul(w[i], RSub(R(1), inertia))]>>])

UniformKernelDensity_from_sample(self, points, weights, inertia) ==
    IF self.frozen THEN Ok(self)
    ELSE IF TruthRaises(weights) THEN Raise(self, "ValueError")
    ELSE LET w == KernelWeights(weights, Len(points))
         IN  IF inertia = R(0)
             THEN Ok([self EXCEPT !.parameters = <<points, @[2], w>>])
             ELSE Ok([self EXCEPT !.parameters =
                        <<@[1] \o points, @[2],
                          [i \in 1..Len(@[3]) |-> RMul(@[3][i], inertia)]
                          \o [i \in 1..Len(w) |-> RMul(w[i], RSub(R(1), inertia))]>>])

TriangleKernelDensity_from_sample(self, points, weights, inertia) ==
    IF self.frozen THEN Ok(self)
    ELSE IF TruthRaises(weights) THEN Raise(self, "ValueError")
    ELSE LET w == KernelWeights(weights, Len(points))
         IN  IF inertia = R(0)
             THEN Ok([self EXCEPT !.parameters = <<points, @[2], w>>])
             ELSE Ok([self EXCEPT !.parameters =
                        <<@[1] \o points, @[2],
                          [i \in 1..Len(@[3]) |-> RMul(@[3][i], inertia)]
                          \o [i \in 1..Len(w) |-> RMul(w[i], RSub(R(1), inertia))]>>])

\* --------------------------------------------------------------- Mixture
MixtureDistribution_from_sample(self, items, weights) == Raise(self, "NotImplementedError")

\* ------------------------------------------------------ method resolution
\* Classes whose from_sample / from_summaries take no inertia argument: a
\* call that passes one (kw) is a TypeError.
BaseFromSample == {"ExtremeValueDistribution", "LambdaDistribution", "MixtureDistribution"}

BaseFromSummaries ==
    BaseFromSample \cup {"GaussianKernelDensity", "UniformKernelDensity",
                         "TriangleKernelDensity"}

\* self.from_sample(items, weights, inertia) on any class but Multivariate
Leaf_from_sample(self, items, weights, inertia, kw) ==
    CASE self.name = "UniformDistribution" ->
            UniformDistribution_from_sample(self, items, weights, inertia)
      [] self.name = "NormalDistribution" ->
            NormalDistribution_from_sample(self, items, weights, inertia)
      [] self.name = "LogNormalDistribution" ->
            LogNormalDistribution_from_sample(self, items, weights, inertia)
      [] self.name = "ExponentialDistribution" ->
            ExponentialDistribution_from_sample(self, items, weights, inertia)
      [] self.name = "DiscreteDistribution" ->
            DiscreteDistribution_from_sample(self, items, weights, inertia)
      [] self.name = "GaussianKernelDensity" ->
            GaussianKernelDensity_from_sample(self, items, weights, inertia)
      [] self.name = "UniformKernelDensity" ->
            UniformKernelDensity_from_sample(self, items, weights, inertia)
      [] self.name = "TriangleKernelDensity" ->
            TriangleKernelDensity_from_sample(self, items, weights, inertia)
      [] self.name = "MixtureDistribution" ->
            IF kw THEN Raise(self, "TypeError")
            ELSE MixtureDistribution_from_sample(self, items, weights)
      [] OTHER ->
            IF kw THEN Raise(self, "TypeError")
            ELSE Distribution_from_sample(self, items, weights)

\* Distribution.from_summaries: self.from_sample( *self.summaries ), then
\* self.summaries = [] when that returned.
Distribution_from_summaries(self) ==
    IF self.frozen THEN Ok(self)
    ELSE IF SummariesUnset(self) \/ Len(self.summaries) = 0 THEN Raise(self, "TypeError")
    ELSE LET r == Leaf_from_sample(self, self.summaries[1].items,
                                   self.summaries[1].weights, R(0), FALSE)
         IN  IF r.err # "none" THEN r
             ELSE Ok([r.o EXCEPT !.summaries = <<>>])

Leaf_summarize(self, items, weights) ==
    CASE self.name = "UniformDistribution" -> UniformDistribution_summarize(self, items, weights)
      [] self.name = "NormalDistribution" -> NormalDistribution_summarize(self, items, weights)
      [] self.name = "LogNormalDistribution" ->
            LogNormalDistribution_summarize(self, items, weights)
      [] self.name = "ExponentialDistribution" ->
            ExponentialDistribution_summarize(self, items, weights)
      [] self.name = "DiscreteDistribution" ->
            DiscreteDistribution_summarize(self, items, weights)
      [] OTHER -> Distribution_summarize(self, items, weights)

Leaf_from_summaries(self, inertia, kw) ==
    CASE self.name = "UniformDistribution" -> UniformDistribution_from_summaries(self, inertia)
      [] self.name = "NormalDistribution" -> NormalDistribution_from_summaries(self, inertia)
      [] self.name = "LogNormalDistribution" ->
            LogNormalDistribution_from_summaries(self, inertia)
      [] self.name = "ExponentialDistribution" ->
            ExponentialDistribution_from_summaries(self, inertia)
      [] self.name = "DiscreteDistribution" ->
            DiscreteDistribution_from_summaries(self, inertia)
      [] OTHER ->
            IF kw THEN Raise(self, "TypeError") ELSE Distribution_from_summaries(self)

\* ---------------------------------------------------------- Multivariate
\* items[:,i]
Column(items, i) == [r \in 1..Len(items) |-> items[r][i]]

HOk(h) == [h |-> h, err |-> "none"]

\* for i, d in enumerate( self.parameters[0] ): d.from_sample( items[:,i], ... )
\* An exception of a child ends the loop; the children before it stay trained.
RECURSIVE EachFromSample(_, _, _, _, _, _)
EachFromSample(h, distributions, i, items, weights, inertia) ==
    IF i > Len(distributions) THEN HOk(h)
    ELSE LET d == distributions[i]
             r == Leaf_from_sample(h[d], Column(items, i), weights, inertia, TRUE)
         IN  IF r.err # "none" THEN [h |-> h, err |-> r.err]
             ELSE EachFromSample([h EXCEPT ![d] = r.o], distributions, i + 1,
                                 items, weights, inertia)

\* A variant that hands the first column to every child:
\* d.from_sample( items[:,0], ... ) in place of items[:,i].
MultivariateDistribution_from_sample_FirstColumn(h, self, items, weights, inertia) ==
    IF h[self].frozen THEN HOk(h)
    ELSE IF Len(items) = 0 /\ Len(h[self].parameters[1]) > 0
    THEN [h |-> h, err |-> "IndexError"]
    ELSE EachFromSample(h, h[self].parameters[1], 1,
                        [r \in 1..Len(items) |-> [c \in 1..Len(items[r]) |-> items[r][1]]],
                        weights, inertia)

MultivariateDistribution_from_sample(h, self, items, weights, inertia) ==
    IF h[self].frozen THEN HOk(h)
    ELSE IF Len(items) = 0 /\ Len(h[self].parameters[1]) > 0
    THEN [h |-> h, err |-> "IndexError"]
    ELSE EachFromSample(h, h[self].parameters[1], 1, items, weights, inertia)

RECURSIVE EachSummarize(_, _, _, _, _)
EachSummarize(h, distributions, i, items, weights) ==
    IF i > Len(distributions) THEN HOk(h)
    ELSE LET d == distributions[i]
             r == Leaf_summarize(h[d], Column(items, i), weights)
         IN  IF r.err # "none" THEN [h |-> h, err |-> r.err]
             ELSE EachSummarize([h EXCEPT ![d] = r.o], distributions, i + 1, items, weights)

MultivariateDistribution_summarize(h, self, items, weights) ==
    IF Len(items) = 0 /\ Len(h[self].parameters[1]) > 0
    THEN [h |-> h, err |-> "IndexError"]
    ELSE EachSummarize(h, h[self].parameters[1], 1, items, weights)

RECURSIVE EachFromSummaries(_, _, _, _)
EachFromSummaries(h, distributions, i, inertia) ==
    IF i > Len(distributions) THEN HOk(h)
    ELSE LET d == distributions[i]
             r == Leaf_from_summaries(h[d], inertia, TRUE)
         IN  IF r.err # "none" THEN [h |-> h, err |-> r.err]
             ELSE EachFromSummaries([h EXCEPT ![d] = r.o], distributions, i + 1, inertia)

MultivariateDistribution_from_summaries(h, self, inertia) ==
    IF h[self].frozen THEN HOk(h)
    ELSE EachFromSummaries(h, h[self].parameters[1], 1, inertia)

\* ------------------------------------------------- calls on a heap object
OnHeap(h, self, r) == [h |-> [h EXCEPT ![self] = r.o], err |-> r.err]

from_sample(h, self, items, weights, inertia, kw) ==
    IF h[self].name = "MultivariateDistribution"
    THEN MultivariateDistribution_from_sample(h, self, items, weights, inertia)
    ELSE OnHeap(h, self, Leaf_from_sample(h[self], items, weights, inertia, kw))

summarize(h, self, items, weights) ==
    IF h[self].name = "MultivariateDistribution"
    THEN MultivariateDistribution_summarize(h, self, items, weights)
    ELSE OnHeap(h, self, Leaf_summarize(h[self], items, weights))

from_summaries(h, self, inertia, kw) ==
    IF h[self].name = "MultivariateDistribution"
    THEN MultivariateDistribution_from_summaries(h, self, inertia)
    ELSE OnHeap(h, self, Leaf_from_summaries(h[self], inertia, kw))

\* A variant that clones the object, frozen flag and summaries included.
Distribution_copy_Clone(h, self, new) ==
    [h |-> [h EXCEPT ![new] = h[self]], err |-> "none"]

\* return self.__class__( *self.parameters ): the constructor's defaults give
\* the copy's frozen flag, and its summaries are the constructor's.  The
\* weights of a kernel density, a mixture or a multivariate are an ndarray,
\* whose truth value the constructor takes.
Distribution_copy(h, self, new) ==
    LET o == h[self]
        p == o.parameters
        made(c) == [h |-> [h EXCEPT ![new] = c], err |-> "none"]
    IN  CASE o.name = "UniformDistribution" -> made(UniformDistribution(p[1], p[2], FALSE))
          [] o.name = "NormalDistribution" -> made(NormalDistribution(p[1], p[2], FALSE))
          [] o.name = "LogNormalDistribution" -> made(LogNormalDistribution(p[1], p[2], FALSE))
          [] o.name = "ExtremeValueDistribution" ->
                made(ExtremeValueDistribution(p[1], p[2], p[3], TRUE))
          [] o.name = "ExponentialDistribution" -> made(ExponentialDistribution(p[1], FALSE))
          [] o.name = "DiscreteDistribution" -> made(DiscreteDistribution(p[1], FALSE))
          [] o.name = "LambdaDistribution" -> made(LambdaDistribution(p[1], TRUE))
          [] o.name = "GaussianKernelDensity" ->
                IF TruthRaises(ArrW(p[3])) THEN [h |-> h, err |-> "ValueError"]
                ELSE made(GaussianKernelDensity(p[1], p[2], ArrW(p[3]), FALSE))
          [] o.name = "UniformKernelDensity" ->
                IF TruthRaises(ArrW(p[3])) THEN [h |-> h, err |-> "ValueError"]
                ELSE made(UniformKernelDensity(p[1], p[2], ArrW(p[3]), FALSE))
          [] o.name = "TriangleKernelDensity" ->
                IF TruthRaises(ArrW(p[3])) THEN [h |-> h, err |-> "ValueError"]
                ELSE made(TriangleKernelDensity(p[1], p[2], ArrW(p[3]), FALSE))
          [] o.name = "MixtureDistribution" ->
                IF TruthRaises(ArrW(p[2])) THEN [h |-> h, err |-> "ValueError"]
                ELSE made(MixtureDistribution(p[1], ArrW(p[2]), FALSE))
          [] OTHER ->
                IF TruthRaises(ArrW(p[2])) THEN [h |-> h, err |-> "ValueError"]
                ELSE made(MultivariateDistribution(p[1], ArrW(p[2]), FALSE))

\* ============================================================ the program
\* Object 1 is the distribution under test, 2 and 3 are its children (of a
\* mixture or a multivariate), 4 is the copy made by copy().
Ids == 1..4

TheCopy == 4

Allocated(h) == {o \in Ids : h[o].name # "None"}

ItemVals == {R(i) : i \in Items}

WeightVals == {R(i) : i \in Weights}

\* The items a call on object o takes: scalars, or rows of one component per
\* child for a multivariate.
ItemSeqs(h, o) ==
    IF h[o].name = "MultivariateDistribution"
    THEN UNION {[1..n -> [1..Len(h[o].parameters[1]) -> ItemVals]] : n \in 0..MaxLen}
    ELSE UNION {[1..n -> ItemVals] : n \in 0..MaxLen}

WeightArgs(n) == {NoneW} \cup {ListW(w) : w \in [1..n -> WeightVals]}

DataOf(items, weights) ==
    IF Len(items) = 0 THEN "empty"
    ELSE IF weights.kind # "None" /\ SeqSum(weights.v).n = 0 THEN "zero"
    ELSE "some"

\* The inertia arguments a caller can pass to a method of the class: none
\* (the default) where the signature has no inertia.
InertiaArgs(name, base) == IF name \in base THEN {R(0)} ELSE Inertias

\* What the last log_probability call was asked and returned.
NoReturn == [symbol |-> "-", value |-> "-"]

NoGhost == [items |-> <<>>, weights |-> <<>>, batches |-> 0, inertia |-> R(0)]

Heap1(d) == [o \in Ids |-> IF o = 1 THEN d ELSE NoObj]

Heap2(d, c2) == [o \in Ids |-> IF o = 1 THEN d ELSE IF o = 2 THEN c2 ELSE NoObj]

Heap3(d, c2, c3) ==
    [o \in Ids |-> IF o = 1 THEN d ELSE IF o = 2 THEN c2 ELSE IF o = 3 THEN c3 ELSE NoObj]

N01 == NormalDistribution(R(0), R(1), FALSE)

U03 == UniformDistribution(R(0), R(3), FALSE)

E1 == ExponentialDistribution(R(1), FALSE)

D13 == DiscreteDistribution([c \in {R(1), R(3)} |-> Rat(1, 2)], FALSE)

Lambda0 == LambdaDistribution("lambda_funct", TRUE)

EV0 == ExtremeValueDistribution(R(0), R(1), R(0), TRUE)

InitHeaps ==
    << Heap1(U03),
       Heap1(N01),
       Heap1(LogNormalDistribution(R(0), R(1), FALSE)),
       Heap1(E1),
       Heap1(EV0),
       Heap1(D13),
       Heap1(Lambda0),
       Heap1(GaussianKernelDensity(<<R(1)>>, R(1), NoneW, FALSE)),
       Heap1(UniformKernelDensity(<<R(1)>>, R(1), NoneW, FALSE)),
       Heap1(TriangleKernelDensity(<<R(1)>>, R(1), NoneW, FALSE)),
       Heap2(MixtureDistribution(<<2>>, NoneW, FALSE), N01),
       Heap3(MixtureDistribution(<<2, 3>>, NoneW, FALSE), N01, E1),
       Heap2(MultivariateDistribution(<<2>>, NoneW, FALSE), N01) >>

NoCall == [op |-> "init", obj |-> 0, err |-> "none", inertia |-> R(0), data |-> "-"]

Init ==
    /\ \E i \in 1..Len(InitHeaps) : heap = InitHeaps[i]
    /\ last = NoCall
    /\ steps = 0
    /\ pc = "main"
    /\ ghost = NoGhost
    /\ ret = NoReturn

Called(op, o, r, inertia, data) ==
    /\ heap' = r.h
    /\ last' = [op |-> op, obj |-> o, err |-> r.err, inertia |-> inertia, data |-> data]
    /\ steps' = steps + 1
    /\ UNCHANGED <<pc, ghost, ret>>

FromSample(o) ==
    /\ steps < MaxSteps
    /\ \E items \in ItemSeqs(heap, o) :
         \E weights \in WeightArgs(Len(items)) :
           \E inertia \in InertiaArgs(heap[o].name, BaseFromSample) :
              Called("from_sample", o,
                     from_sample(heap, o, items, weights, inertia,
                                 heap[o].name \notin BaseFromSample),
                     inertia, DataOf(items, weights))

Summarize(o) ==
    /\ steps < MaxSteps
    /\ \E items \in ItemSeqs(heap, o) :
         \E weights \in WeightArgs(Len(items)) :
            Called("summarize", o, summarize(heap, o, items, weights),
                   R(0), DataOf(items, weights))

FromSummaries(o) ==
    /\ steps < MaxSteps
    /\ \E inertia \in InertiaArgs(heap[o].name, BaseFromSummaries) :
          Called("from_summaries", o,
                 from_summaries(heap, o, inertia, heap[o].name \notin BaseFromSummaries),
                 inertia, "-")

Freeze(o) ==
    /\ steps < MaxSteps
    /\ Called("freeze", o, HOk([heap EXCEPT ![o] = Distribution_freeze(@)]), R(0), "-")

Thaw(o) ==
    /\ steps < MaxSteps
    /\ Called("thaw", o, HOk([heap EXCEPT ![o] = Distribution_thaw(@)]), R(0), "-")

Copy ==
    /\ steps < MaxSteps
    /\ heap[TheCopy].name = "None"
    /\ Called("copy", 1, Distribution_copy(heap, 1, TheCopy), R(0), "-")

Next ==
    \/ \E o \in Allocated(heap) : FromSample(o)
    \/ \E o \in Allocated(heap) : Summarize(o)
    \/ \E o \in Allocated(heap) : FromSummaries(o)
    \/ \E o \in Allocated(heap) : Freeze(o)
    \/ \E o \in Allocated(heap) : Thaw(o)
    \/ Copy

Spec == Init /\ [][Next]_vars

\* The same program, started on a Uniform distribution.
InitUniform ==
    /\ heap = Heap1(U03)
    /\ last = NoCall
    /\ steps = 0
    /\ pc = "main"
    /\ ghost = NoGhost
    /\ ret = NoReturn

SpecUniform == InitUniform /\ [][Next]_vars

\* The same program, started on the variants without a fit of their own.
InitUnsupported ==
    /\ heap \in {Heap1(EV0), Heap1(Lambda0),
                 Heap2(MixtureDistribution(<<2>>, NoneW, FALSE), Lambda0),
                 Heap3(MixtureDistribution(<<2, 3>>, NoneW, FALSE), EV0, Lambda0)}
    /\ last = NoCall
    /\ steps = 0
    /\ pc = "main"
    /\ ghost = NoGhost
    /\ ret = NoReturn

SpecUnsupported == InitUnsupported /\ [][Next]_vars

\* ------------------------------------------------- batches against a fit
\* A client presents a dataset to object 1 in batches (summarize, ...,
\* from_summaries) and to object 2, constructed alike, at once (from_sample
\* on the concatenation).  ghost holds the concatenation.
FitObjects ==
    << U03,
       N01,
       LogNormalDistribution(R(0), R(1), FALSE),
       E1,
       D13,
       GaussianKernelDensity(<<R(1)>>, R(1), NoneW, FALSE),
       UniformKernelDensity(<<R(1)>>, R(1), NoneW, FALSE),
       TriangleKernelDensity(<<R(1)>>, R(1), NoneW, FALSE) >>

FitInit ==
    /\ \E i \in 1..Len(FitObjects) : heap = Heap2(FitObjects[i], FitObjects[i])
    /\ \E inertia \in Inertias : ghost = [NoGhost EXCEPT !.inertia = inertia]
    /\ ret = NoReturn
    /\ last = NoCall
    /\ steps = 0
    /\ pc = "summarize"

\* The weights of the concatenation: None when no batch had weights, else
\* the batches' weights with ones for the batches without.
GhostWeights == IF ghost.weights = <<>> THEN NoneW ELSE ListW(ghost.weights)

ConcatWeights(g, items, weights) ==
    IF weights.kind = "None" /\ g.weights = <<>> THEN <<>>
    ELSE (IF g.weights = <<>> THEN Ones(Len(g.items)) ELSE g.weights)
         \o WOrOnes(weights, Len(items))

\* The outcome r of a call of the client on object o.
FitCalled(op, o, r, inertia, data) ==
    /\ heap' = r.h
    /\ last' = [op |-> op, obj |-> o, err |-> r.err, inertia |-> inertia, data |-> data]
    /\ steps' = steps + 1
    /\ UNCHANGED ret

FitSummarize ==
    /\ pc = "summarize"
    /\ ghost.batches < MaxBatches
    /\ \E items \in ItemSeqs(heap, 1) :
         \E weights \in WeightArgs(Len(items)) :
            /\ Len(ghost.items) + Len(items) <= MaxData
            /\ FitCalled("summarize", 1, summarize(heap, 1, items, weights),
                         R(0), DataOf(items, weights))
            /\ ghost' = [ghost EXCEPT !.items = @ \o items,
                                      !.weights = ConcatWeights(ghost, items, weights),
                                      !.batches = @ + 1]
    /\ UNCHANGED pc

FitCommit ==
    /\ pc = "summarize"
    /\ ghost.batches > 0
    /\ FitCalled("from_summaries", 1,
                 from_summaries(heap, 1, ghost.inertia,
                                heap[1].name \notin BaseFromSummaries),
                 ghost.inertia, "-")
    /\ pc' = "sample"
    /\ UNCHANGED ghost

FitSample ==
    /\ pc = "sample"
    /\ FitCalled("from_sample", 2,
                 from_sample(heap, 2, ghost.items, GhostWeights, ghost.inertia, TRUE),
                 ghost.inertia, DataOf(ghost.items, GhostWeights))
    /\ pc' = "done"
    /\ UNCHANGED ghost

FitNext == FitSummarize \/ FitCommit \/ FitSample

SpecFit == FitInit /\ [][FitNext]_vars

\* ================================================================= claims
Children(h, o) ==
    IF h[o].name \in {"MixtureDistribution", "MultivariateDistribution"}
    THEN h[o].parameters[1] ELSE <<>>

\* What log_probability of object o reads: its parameters and its children's.
Deep(h, o) ==
    <<h[o].parameters, [i \in 1..Len(Children(h, o)) |-> h[Children(h, o)[i]].parameters]>>

Fitting == {"from_sample", "from_summaries"}

\* Nothing was summarized into object o since its construction or its last
\* commit.
Unsummarized(h, o) ==
    IF h[o].name = "DiscreteDistribution" THEN h[o].summaries = <<EmptyDict, R(0)>>
    ELSE IF SummariesUnset(h[o]) THEN TRUE
    ELSE Len(h[o].summaries) = 0

NoSummaries(h, o) ==
    /\ Unsummarized(h, o)
    /\ \A i \in 1..Len(Children(h, o)) : Unsummarized(h, Children(h, o)[i])

\* C1: on a frozen distribution every from_sample and from_summaries call
\* returns without error and leaves the parameters as they were.
C1_FrozenFitReturnsUnchanged ==
    [][\A o \in Allocated(heap) :
          (heap[o].frozen /\ last'.obj = o /\ last'.op \in Fitting)
          => (last'.err = "none" /\ Deep(heap', o) = Deep(heap, o))]_vars

\* C4: a summarize call leaves the parameters and the frozen flag of every
\* distribution unchanged; only summaries may change.
C4_SummarizeKeepsParameters ==
    [][last'.op = "summarize"
       => \A o \in Allocated(heap) :
             /\ heap'[o].parameters = heap[o].parameters
             /\ heap'[o].frozen = heap[o].frozen
             /\ heap'[o].name = heap[o].name]_vars

C4_Witness ==
    /\ last.op = "summarize"
    /\ last.err = "none"
    /\ last.data = "some"
    /\ heap[last.obj].name = "DiscreteDistribution"
    /\ heap[last.obj].summaries[2] # R(0)

\* C5: from_summaries with nothing summarized raises no error and leaves the
\* parameters unchanged.
C5_EmptyFromSummariesIsNoOp ==
    [][(last'.op = "from_summaries" /\ NoSummaries(heap, last'.obj))
       => (last'.err = "none" /\ Deep(heap', last'.obj) = Deep(heap, last'.obj))]_vars

\* C6: after d2 = d.copy(), no from_sample / summarize / from_summaries call
\* on d2 changes what d's log_probability reads, and vice versa.
C6_CopyIsUntied ==
    [][(heap[TheCopy].name # "None" /\ last'.op \in Fitting \cup {"summarize"})
       => /\ last'.obj = TheCopy => Deep(heap', 1) = Deep(heap, 1)
          /\ last'.obj = 1 => Deep(heap', TheCopy) = Deep(heap, TheCopy)]_vars

\* C9 as stated: from_sample on a Mixture or on a Lambda as constructed with
\* default arguments (Mixture unfrozen, Lambda frozen) fails with
\* NotImplementedError and changes no state.
C9_Original ==
    [][(/\ last'.op = "from_sample"
        /\ \/ heap[last'.obj].name = "MixtureDistribution" /\ ~heap[last'.obj].frozen
           \/ heap[last'.obj].name = "LambdaDistribution" /\ heap[last'.obj].frozen)
       => (last'.err = "NotImplementedError" /\ heap' = heap)]_vars

\* C9 amended: from_sample on a Mixture always fails with
\* NotImplementedError; on a Lambda it fails with NotImplementedError only
\* when the Lambda is not frozen, and a Lambda as constructed with default
\* arguments is frozen, so the call returns silently; no state changes.
C9_UnsupportedFit ==
    [][(last'.op = "from_sample"
        /\ heap[last'.obj].name \in {"MixtureDistribution", "LambdaDistribution"})
       => /\ heap' = heap
          /\ heap[last'.obj].name = "MixtureDistribution"
                => last'.err = "NotImplementedError"
          /\ heap[last'.obj].name = "LambdaDistribution"
                => last'.err = (IF heap[last'.obj].frozen THEN "none"
                                ELSE "NotImplementedError")]_vars

C9_Witness ==
    /\ last.op = "from_sample"
    /\ heap[1].name = "LambdaDistribution"
    /\ last.obj = 1
    /\ heap[1].frozen
    /\ last.err = "none"
    /\ steps = 1

\* C10: a Uniform distribution that starts with start <= end keeps
\* start <= end under every sequence of calls.
C10_UniformOrdered ==
    \A o \in Allocated(heap) :
       heap[o].name = "UniformDistribution"
       => RLe(heap[o].parameters[1], heap[o].parameters[2])

C10_Witness ==
    /\ last.op = "from_summaries"
    /\ last.err = "none"
    /\ last.inertia = Rat(1, 2)
    /\ heap[1].name = "UniformDistribution"
    /\ heap[1].parameters # <<R(0), R(3)>>

\* ------------------------------------------------- claims under SpecFit
Done == pc = "done"

NameIs(names) == heap[1].name \in names

\* C2: for Uniform, Exponential and Discrete, summarizing the batches and
\* committing yields the same parameters as from_sample on the concatenation.
C2_BatchesEqualSample ==
    (Done /\ NameIs({"UniformDistribution", "ExponentialDistribution",
                     "DiscreteDistribution"}))
    => heap[1].parameters = heap[2].parameters

\* C3: for Normal and LogNormal, the (mean, std) committed from the batches
\* equals the (mean, std) from_sample gives on the concatenation.
C3_NormalBatchesEqualSample ==
    (Done /\ NameIs({"NormalDistribution", "LogNormalDistribution"}))
    => heap[1].parameters = heap[2].parameters

\* The part of C2 that holds: Uniform and Exponential.
UniformExponentialBatchesEqualSample ==
    (Done /\ NameIs({"UniformDistribution", "ExponentialDistribution"}))
    => heap[1].parameters = heap[2].parameters

SampleStep == pc = "sample" /\ pc' = "done"

CommitStep == pc = "summarize" /\ pc' = "sample"

GhostData == DataOf(ghost.items, GhostWeights)

\* The dataset without its items of weight zero.
KeptItems ==
    IF GhostWeights.kind = "None" THEN ghost.items
    ELSE PositiveWeight(ghost.items, ghost.weights)

KeptWeights ==
    IF GhostWeights.kind = "None" THEN NoneW
    ELSE ListW(PositiveWeight(ghost.weights, ghost.weights))

\* C7: from_sample on an empty item sequence, or with weights that are all
\* zero, raises no error and leaves the parameters unchanged; and an item of
\* weight zero does not influence the fitted parameters.
C7_DegenerateSampleIsNoOp ==
    [][SampleStep
       => /\ GhostData \in {"empty", "zero"}
                => (last'.err = "none" /\ heap'[2].parameters = heap[2].parameters)
          /\ heap'[2].parameters =
                Leaf_from_sample(heap[2], KeptItems, KeptWeights,
                                 ghost.inertia, TRUE).o.parameters]_vars

\* Another prior of the same class.
Alt(self) ==
    CASE self.name = "UniformDistribution" -> [self EXCEPT !.parameters = <<R(-1), R(5)>>]
      [] self.name = "NormalDistribution" -> [self EXCEPT !.parameters = <<R(5), R(2)>>]
      [] self.name = "LogNormalDistribution" -> [self EXCEPT !.parameters = <<R(1), R(2)>>]
      [] self.name = "ExponentialDistribution" -> [self EXCEPT !.parameters = <<R(3)>>]
      [] self.name = "DiscreteDistribution" ->
            [self EXCEPT !.parameters = <<[c \in {R(2)} |-> R(1)]>>]
      [] OTHER -> [self EXCEPT !.parameters = <<<<R(2), R(2)>>, @[2], <<Rat(1, 2), Rat(1, 2)>>>>]

Scalar == {"UniformDistribution", "NormalDistribution", "LogNormalDistribution",
           "ExponentialDistribution"}

Kernel == {"GaussianKernelDensity", "UniformKernelDensity", "TriangleKernelDensity"}

\* Object 1 holds summaries of data of positive weight.
Summarized(self) ==
    IF self.name = "DiscreteDistribution" THEN RLt(R(0), self.summaries[2])
    ELSE Len(self.summaries) > 0

Blended(old, fit, inertia) == [k \in 1..Len(old) |-> Blend(old[k], fit[k], inertia)]

ItemSet == {ghost.items[k] : k \in 1..Len(ghost.items)}

\* C8 for from_sample, amended (see C8_InertiaBlend).
C8_Sample(pre, post, inertia) ==
    LET fit == Leaf_from_sample(pre, ghost.items, GhostWeights, R(0), TRUE).o.parameters
        alt == Leaf_from_sample(Alt(pre), ghost.items, GhostWeights, R(0), TRUE).o.parameters
        two == NonZero(WOrOnes(GhostWeights, Len(ghost.items))) > 1
    IN  /\ pre.name \in Scalar
           => /\ post.parameters = Blended(pre.parameters, fit, inertia)
              /\ inertia = R(1) => post.parameters = pre.parameters
              /\ (inertia = R(0) /\ (two \/ pre.name \in {"UniformDistribution",
                                                          "ExponentialDistribution"}))
                    => post.parameters = alt
              /\ (inertia = R(0) /\ ~two /\ pre.name \in {"NormalDistribution",
                                                          "LogNormalDistribution"})
                    => /\ post.parameters[1] = alt[1]
                       /\ post.parameters[2] = RMax(pre.parameters[2], min_std)
        /\ pre.name = "DiscreteDistribution"
           => LET old == pre.parameters[1]
                  new == post.parameters[1]
              IN  /\ DOMAIN new = DOMAIN old \cup ItemSet
                  /\ inertia = R(1)
                        => /\ \A c \in DOMAIN old : new[c] = old[c]
                           /\ \A c \in ItemSet \ DOMAIN old : new[c] = R(0)
                  /\ inertia = R(0)
                        => /\ \A c \in DOMAIN old \ ItemSet : new[c] = R(0)
                           /\ \A c \in ItemSet : new[c] = alt[1][c]
        /\ pre.name \in Kernel
           => /\ post.parameters[2] = pre.parameters[2]
              /\ inertia = R(0) => (post.parameters[1] = ghost.items /\ post.parameters = alt)
              /\ inertia # R(0)
                    => /\ post.parameters[1] = pre.parameters[1] \o ghost.items
                       /\ Len(post.parameters[3]) = Len(pre.parameters[3]) + Len(ghost.items)
              /\ inertia = R(1)
                    => /\ SubSeq(post.parameters[3], 1, Len(pre.parameters[3])) = pre.parameters[3]
                       /\ \A k \in (Len(pre.parameters[3]) + 1)..Len(post.parameters[3]) :
                             post.parameters[3][k] = R(0)

\* C8 for from_summaries, amended.
C8_Commit(pre, post, inertia) ==
    LET fit == Leaf_from_summaries(pre, R(0), TRUE).o.parameters
        alt == Leaf_from_summaries([Alt(pre) EXCEPT !.summaries = pre.summaries],
                                   R(0), TRUE).o.parameters
    IN  /\ inertia = R(0) => post.parameters = alt
        /\ pre.name \in Scalar
           => /\ post.parameters = Blended(pre.parameters, fit, inertia)
              /\ inertia = R(1) => post.parameters = pre.parameters
        /\ pre.name = "DiscreteDistribution"
           => LET old == pre.parameters[1]
                  new == post.parameters[1]
              IN  inertia = R(1)
                     => /\ DOMAIN new = DOMAIN old \cup DOMAIN pre.summaries[1]
                        /\ \A c \in DOMAIN old : new[c] = old[c]
                        /\ \A c \in DOMAIN new \ DOMAIN old : new[c] = R(0)

C11_StdAtLeastMin ==
    \A o \in Allocated(heap) :
       heap[o].name \in {"NormalDistribution", "LogNormalDistribution"}
       => RLe(min_std, heap[o].parameters[2])

\* The sum of the probabilities of the categories in keys.
RECURSIVE SumOver(_, _)
SumOver(characters, keys) ==
    IF keys = {} THEN R(0)
    ELSE LET c == CHOOSE k \in keys : TRUE
         IN  RAdd(characters[c], SumOver(characters, keys \ {c}))

\* C12: a Discrete distribution whose category probabilities sum to 1 keeps
\* that sum under every sequence of calls with non-negative weights.
C12_DiscreteSumsToOne ==
    \A o \in Allocated(heap) :
       heap[o].name = "DiscreteDistribution"
       => SumOver(heap[o].parameters[1], DOMAIN heap[o].parameters[1]) = R(1)

\* ------------------------------------------------------ kernel densities
\* What C13 says of one from_sample call on a kernel density.
KernelUpdate(pre, post, points, inertia) ==
    /\ inertia = R(0)
          => /\ post.parameters[1] = points
             /\ Len(post.parameters[3]) = Len(points)
    /\ inertia # R(0)
          => /\ post.parameters[1] = pre.parameters[1] \o points
             /\ Len(post.parameters[3]) = Len(pre.parameters[3]) + Len(points)
             /\ \A k \in 1..Len(pre.parameters[3]) :
                   post.parameters[3][k] = RMul(pre.parameters[3][k], inertia)
             /\ SeqSum(SubSeq(post.parameters[3], Len(pre.parameters[3]) + 1,
                              Len(post.parameters[3]))) = RSub(R(1), inertia)
    /\ SeqSum(post.parameters[3]) = R(1)

\* C13: from_sample on a kernel density with inertia=0 stores exactly the
\* new sample; with inertia>0 it stores the old points followed by the new
\* ones, old weights scaled by inertia and new ones by 1-inertia; the stored
\* weights sum to 1.
C13_KernelPointSet ==
    [][(SampleStep /\ heap[2].name \in Kernel)
       => KernelUpdate(heap[2], heap'[2], ghost.items, ghost.inertia)]_vars

\* The same on a sample of positive weight.
KernelPointSetOnPositiveData ==
    [][(SampleStep /\ heap[2].name \in Kernel /\ GhostData = "some")
       => KernelUpdate(heap[2], heap'[2], ghost.items, ghost.inertia)]_vars

\* ---------------------------------------------------------- log_probability
\* A returned float: -inf, nan, or the finite value log(q) - minus with q > 0
\* (exact, q and minus rationals).
NEGINF == [kind |-> "-inf"]

NanValue == [kind |-> "nan"]

Finite(q, minus) == [kind |-> "finite", log |-> q, minus |-> minus]

\* utils._log: the logarithm, NEGINF at 0 (the callers pass values >= 0)
utils_log(x) ==
    IF IsNaN(x) THEN NanValue
    ELSE IF x.n = 0 THEN NEGINF
    ELSE Finite(x, R(0))

\* libc exp of a returned log probability; a mixture of the model has
\* children (Uniform, Discrete) whose finite values are log(q).
cexp(v) ==
    CASE v.kind = "-inf" -> R(0)
      [] v.kind = "nan" -> NaN
      [] v.kind = "finite" /\ v.minus = R(0) -> v.log

Value(v) == [value |-> v, err |-> "none"]

UniformDistribution_log_probability(self, symbol) ==
    LET a == self.parameters[1]
        b == self.parameters[2]
    IN  IF symbol = a /\ symbol = b THEN Value(Finite(R(1), R(0)))
        ELSE IF RLe(a, symbol) /\ RLe(symbol, b)
        THEN Value(utils_log(RDiv(R(1), RSub(b, a))))
        ELSE Value(NEGINF)

\* -clog( symbol * sigma * SQRT_2_PI ) - 0.5 * ((clog( symbol ) - mu) / sigma) ** 2
\* with sigma > 0: clog of a negative number is nan, and at 0 the two terms
\* are +inf and -inf, whose sum is nan.
LogNormalDistribution_log_probability(self, symbol) ==
    LET mu == self.parameters[1]
        sigma == self.parameters[2]
    IN  IF IsNaN(mu) \/ IsNaN(sigma) \/ symbol.n <= 0 THEN Value(NanValue)
        ELSE Value([kind |-> "finite", density |-> <<"LogNormal", mu, sigma, symbol>>])

\* _log(self.parameters[0]) - self.parameters[0] * symbol
ExponentialDistribution_log_probability(self, symbol) ==
    LET rate == self.parameters[1]
        l == utils_log(rate)
    IN  IF l.kind = "finite" THEN Value(Finite(rate, RMul(rate, symbol)))
        ELSE Value(l)

\* _log( self.parameters[0].get( symbol, 0 ) )
DiscreteDistribution_log_probability(self, symbol) ==
    Value(utils_log(IF symbol \in DOMAIN self.parameters[1]
                    THEN self.parameters[1][symbol] ELSE R(0)))

Leaf_log_probability(self, symbol) ==
    CASE self.name = "UniformDistribution" -> UniformDistribution_log_probability(self, symbol)
      [] self.name = "LogNormalDistribution" ->
            LogNormalDistribution_log_probability(self, symbol)
      [] self.name = "ExponentialDistribution" ->
            ExponentialDistribution_log_probability(self, symbol)
      [] self.name = "DiscreteDistribution" ->
            DiscreteDistribution_log_probability(self, symbol)

\* (d, w), n = self.parameters, len(self.parameters): n is 2, the length of
\* the list [ distributions, weights ].
MixtureDistribution_log_probability(h, self, symbol) ==
    LET d == h[self].parameters[1]
        w == h[self].parameters[2]
        n == Len(h[self].parameters)
    IN  IF Len(d) < n THEN [value |-> "-", err |-> "IndexError"]
        ELSE Value(utils_log(SeqSum([i \in 1..n |->
                       RMul(cexp(Leaf_log_probability(h[d[i]], symbol).value), w[i])])))

log_probability(h, self, symbol) ==
    IF h[self].name = "MixtureDistribution"
    THEN MixtureDistribution_log_probability(h, self, symbol)
    ELSE Leaf_log_probability(h[self], symbol)

\* ------------------------------------------------- a client that queries
\* The symbols log_probability is asked about.
Symbols == {R(-1), R(0), R(1), R(2)}

Heap4(d, c2, c3, c4) ==
    [o \in Ids |-> IF o = 1 THEN d ELSE IF o = 2 THEN c2 ELSE IF o = 3 THEN c3 ELSE c4]

\* One distribution with a log_probability of the model, or a mixture of
\* one, two or three of them.
InitQuery ==
    /\ heap \in {Heap1(U03), Heap1(E1), Heap1(D13),
                 Heap1(LogNormalDistribution(R(0), R(1), FALSE)),
                 Heap2(MixtureDistribution(<<2>>, NoneW, FALSE), U03),
                 Heap3(MixtureDistribution(<<2, 3>>, NoneW, FALSE), U03, D13),
                 Heap4(MixtureDistribution(<<2, 3, 4>>, NoneW, FALSE), U03, D13, U03)}
    /\ last = NoCall
    /\ steps = 0
    /\ pc = "main"
    /\ ghost = NoGhost
    /\ ret = NoReturn

Returned(o, symbol, r) ==
    /\ last' = [op |-> "log_probability", obj |-> o, err |-> r.err,
                inertia |-> R(0), data |-> "-"]
    /\ ret' = [symbol |-> symbol, value |-> r.value]
    /\ steps' = steps + 1
    /\ UNCHANGED <<heap, pc, ghost>>

LogProbability(o) ==
    /\ steps < MaxSteps
    /\ \E symbol \in Symbols : Returned(o, symbol, log_probability(heap, o, symbol))

QueryNext ==
    \/ \E o \in Allocated(heap) : FromSample(o)
    \/ \E o \in Allocated(heap) : LogProbability(o)

SpecQuery == InitQuery /\ [][QueryNext]_vars

\* exp of what child i of mixture o returns for the symbol, times its weight
Term(h, o, i, symbol) ==
    RMul(cexp(Leaf_log_probability(h[h[o].parameters[1][i]], symbol).value),
         h[o].parameters[2][i])

\* C14: log_probability of a mixture is the log of the sum, over all its
\* children, of weight_i * exp(child_i.log_probability(x)).
C14_MixtureSumsAllChildren ==
    [][(last'.op = "log_probability" /\ heap[last'.obj].name = "MixtureDistribution")
       => /\ last'.err = "none"
          /\ ret'.value =
                utils_log(SeqSum([i \in 1..Len(heap[last'.obj].parameters[1]) |->
                                    Term(heap, last'.obj, i, ret'.symbol)]))]_vars

\* The same for mixtures of exactly two children.
TwoChildrenMixtureSumsBoth ==
    [][(/\ last'.op = "log_probability"
        /\ heap[last'.obj].name = "MixtureDistribution"
        /\ Len(heap[last'.obj].parameters[1]) = 2)
       => /\ last'.err = "none"
          /\ ret'.value = utils_log(RAdd(Term(heap, last'.obj, 1, ret'.symbol),
                                         Term(heap, last'.obj, 2, ret'.symbol)))]_vars

\* ------------------------------------- a client of a two-column multivariate
\* Object 1 is a multivariate over the children 2 and 3; the client calls
\* the multivariate only.  ghost holds the arguments of the last call
\* (weights as passed: None or a list).
InitColumns ==
    /\ heap \in {Heap3(MultivariateDistribution(<<2, 3>>, NoneW, FALSE), N01, U03),
                 Heap3(MultivariateDistribution(<<2, 3>>, NoneW, FALSE), D13, E1),
                 Heap3(MultivariateDistribution(<<2, 3>>, NoneW, FALSE),
                       U03, GaussianKernelDensity(<<R(1)>>, R(1), NoneW, FALSE))}
    /\ last = NoCall
    /\ steps = 0
    /\ pc = "main"
    /\ ghost = NoGhost
    /\ ret = NoReturn

ColumnsCalled(op, r, items, weights, inertia) ==
    /\ heap' = r.h
    /\ last' = [op |-> op, obj |-> 1, err |-> r.err, inertia |-> inertia,
                data |-> DataOf(items, weights)]
    /\ ghost' = [items |-> items, weights |-> weights, batches |-> 0, inertia |-> inertia]
    /\ steps' = steps + 1
    /\ UNCHANGED <<pc, ret>>

\* The inertia arguments of the calls on the multivariate.
ColumnInertias == {R(0), Rat(1, 2)}

ColumnsFromSample ==
    /\ steps < MaxColumnSteps
    /\ \E items \in ItemSeqs(heap, 1) :
         \E weights \in WeightArgs(Len(items)) :
           \E inertia \in ColumnInertias :
              ColumnsCalled("from_sample",
                            from_sample(heap, 1, items, weights, inertia, TRUE),
                            items, weights, inertia)

ColumnsSummarize ==
    /\ steps < MaxColumnSteps
    /\ \E items \in ItemSeqs(heap, 1) :
         \E weights \in WeightArgs(Len(items)) :
            ColumnsCalled("summarize", summarize(heap, 1, items, weights),
                          items, weights, R(0))

ColumnsFromSummaries ==
    /\ steps < MaxColumnSteps
    /\ \E inertia \in ColumnInertias :
          ColumnsCalled("from_summaries", from_summaries(heap, 1, inertia, TRUE),
                        <<>>, NoneW, inertia)

ColumnsNext == ColumnsFromSample \/ ColumnsSummarize \/ ColumnsFromSummaries

SpecColumns == InitColumns /\ [][ColumnsNext]_vars

\* The call of the last step, made on heap h with other items.
Again(h, items) ==
    CASE last'.op = "from_sample" ->
            from_sample(h, 1, items, ghost'.weights, ghost'.inertia, TRUE)
      [] last'.op = "summarize" -> summarize(h, 1, items, ghost'.weights)
      [] last'.op = "from_summaries" -> from_summaries(h, 1, ghost'.inertia, TRUE)

\* The same call made on the child itself with its column.
Directly(child, column) ==
    CASE last'.op = "from_sample" ->
            Leaf_from_sample(child, column, ghost'.weights, ghost'.inertia, TRUE)
      [] last'.op = "summarize" -> Leaf_summarize(child, column, ghost'.weights)
      [] last'.op = "from_summaries" -> Leaf_from_summaries(child, ghost'.inertia, TRUE)

\* items with every column but column i overwritten by a constant
OnlyColumn(items, i) ==
    [r \in 1..Len(items) |->
        [j \in 1..Len(items[r]) |-> IF j = i THEN items[r][j] ELSE R(1)]]

\* C15: a call on a multivariate leaves child i in a state that depends on
\* column i only (it is the same when the other columns are overwritten),
\* and when the call returns, child i is as after the same call made
\* directly on it with column i.
C15_ColumnsIndependent ==
    [][\A i \in 1..Len(heap[1].parameters[1]) :
          LET d == heap[1].parameters[1][i]
          IN  /\ heap'[d] = Again(heap, OnlyColumn(ghost'.items, i)).h[d]
              /\ last'.err = "none"
                    => heap'[d] = Directly(heap[d], Column(ghost'.items, i)).o]_vars

C15_Witness ==
    /\ last.op = "from_sample"
    /\ last.err = "none"
    /\ heap[2].name = "NormalDistribution"
    /\ ghost.items = <<<<R(2), R(1)>>, <<R(1), R(2)>>>>
    /\ heap[2].parameters[1] = Rat(3, 2)
    /\ heap[3].parameters = <<R(1), R(2)>>

\* ------------------------------------------------- outside the support
\* The symbol lies outside the support of the distribution: outside [a, b]
\* for Uniform, a key the dictionary does not hold for Discrete, below 0 for
\* Exponential, at or below 0 for LogNormal.
OutsideSupport(self, symbol) ==
    CASE self.name = "UniformDistribution" ->
            RLt(symbol, self.parameters[1]) \/ RLt(self.parameters[2], symbol)
      [] self.name = "DiscreteDistribution" -> symbol \notin DOMAIN self.parameters[1]
      [] self.name = "ExponentialDistribution" -> RLt(symbol, R(0))
      [] self.name = "LogNormalDistribution" -> RLe(symbol, R(0))
      [] OTHER -> FALSE

\* C16: log_probability(x) returns negative infinity for every x outside the
\* support of the variant, raises nothing and changes neither parameters nor
\* summaries.
C16_NegInfOutsideSupport ==
    [][(last'.op = "log_probability" /\ OutsideSupport(heap[last'.obj], ret'.symbol))
       => /\ last'.err = "none"
          /\ ret'.value = NEGINF
          /\ heap' = heap]_vars

\* The same for Uniform and Discrete alone, the two variants whose
\* log_probability tests the support.
UniformDiscreteNegInfOutsideSupport ==
    [][(/\ last'.op = "log_probability"
        /\ heap[last'.obj].name \in {"UniformDistribution", "DiscreteDistribution"}
        /\ OutsideSupport(heap[last'.obj], ret'.symbol))
       => /\ last'.err = "none"
          /\ ret'.value = NEGINF
          /\ heap' = heap]_vars

\* ----------------------------------------------------- all or nothing
\* C17: a from_sample or from_summaries call that fails leaves the
\* parameters of every distribution, the children of a Multivariate
\* included, as they were before the call.
C17_AllOrNothing ==
    [][(last'.op \in {"from_sample", "from_summaries"} /\ last'.err # "none")
       => \A o \in Allocated(heap) : heap'[o].parameters = heap[o].parameters]_vars

\* ----------------------------------------- summaries across freeze and thaw
\* A client presents batches to object 1 with summarize, commits them with
\* from_summaries, and freezes and thaws the object in between.  ghost holds
\* the batches whose summarize returned since the last from_summaries that
\* returned on the unfrozen object; pc is "held" once a from_summaries has
\* returned on the frozen object with batches presented, and "released" when
\* the next from_summaries has returned on the thawed object.
MaxAccSteps == 5

InitAccumulate ==
    /\ heap \in {Heap1(N01), Heap1(D13), Heap1(E1), Heap1(U03),
                 Heap1(LogNormalDistribution(R(0), R(1), FALSE)),
                 Heap1(GaussianKernelDensity(<<R(1)>>, R(1), NoneW, FALSE)),
                 Heap2(MultivariateDistribution(<<2>>, NoneW, FALSE), N01)}
    /\ last = NoCall
    /\ steps = 0
    /\ pc = "main"
    /\ ghost = NoGhost
    /\ ret = NoReturn

AccSummarize ==
    /\ steps < MaxAccSteps
    /\ ghost.batches < MaxBatches
    /\ \E items \in ItemSeqs(heap, 1) :
         \E weights \in WeightArgs(Len(items)) :
            /\ FitCalled("summarize", 1, summarize(heap, 1, items, weights),
                         R(0), DataOf(items, weights))
            /\ ghost' = IF last'.err = "none"
                        THEN [ghost EXCEPT !.items = Append(@, items),
                                           !.weights = Append(@, weights),
                                           !.batches = @ + 1]
                        ELSE ghost
    /\ UNCHANGED pc

AccCommit ==
    /\ steps < MaxAccSteps
    /\ \E inertia \in InertiaArgs(heap[1].name, BaseFromSummaries) :
          FitCalled("from_summaries", 1,
                    from_summaries(heap, 1, inertia, heap[1].name \notin BaseFromSummaries),
                    inertia, "-")
    /\ ghost' = IF ~heap[1].frozen /\ last'.err = "none" THEN NoGhost ELSE ghost
    /\ pc' = IF last'.err # "none" THEN pc
             ELSE IF heap[1].frozen THEN (IF ghost.batches > 0 THEN "held" ELSE pc)
             ELSE IF pc = "held" THEN "released" ELSE "main"

AccFreeze ==
    /\ steps < MaxAccSteps
    /\ FitCalled("freeze", 1, HOk([heap EXCEPT ![1] = Distribution_freeze(@)]), R(0), "-")
    /\ UNCHANGED <<pc, ghost>>

AccThaw ==
    /\ steps < MaxAccSteps
    /\ FitCalled("thaw", 1, HOk([heap EXCEPT ![1] = Distribution_thaw(@)]), R(0), "-")
    /\ UNCHANGED <<pc, ghost>>

AccNext == AccSummarize \/ AccCommit \/ AccFreeze \/ AccThaw

SpecAccumulate == InitAccumulate /\ [][AccNext]_vars

C19_FrozenSummarizeKeepsSummaries ==
    [][(last'.op = "summarize" /\ heap[1].frozen)
       => \A o \in Allocated(heap) : heap'[o].summaries = heap[o].summaries]_vars

\* Every summarize that returns on a frozen distribution records the batch
\* as it does on an unfrozen one.
FrozenSummarizeAsUnfrozen ==
    [][(last'.op = "summarize" /\ last'.err = "none" /\ heap[1].frozen)
       => \A o \in Allocated(heap) :
             heap'[o].summaries =
                summarize([heap EXCEPT ![1] = Distribution_thaw(@)], 1,
                          ghost'.items[Len(ghost'.items)],
                          ghost'.weights[Len(ghost'.weights)]).h[o].summaries]_vars

\* The empty accumulator of the variant: [] or [ {}, 0 ].
EmptyAccumulator(self) ==
    IF self.name = "DiscreteDistribution" THEN <<EmptyDict, R(0)>> ELSE <<>>

Emptied(h) ==
    [o \in Ids |-> IF h[o].name = "None" THEN h[o]
                   ELSE [h[o] EXCEPT !.summaries = EmptyAccumulator(h[o])]]

\* The batches presented to object 1 one after another.
RECURSIVE Replay(_, _, _)
Replay(h, items, weights) ==
    IF Len(items) = 0 THEN h
    ELSE Replay(summarize(h, 1, Head(items), Head(weights)).h, Tail(items), Tail(weights))

\* The last step ended as the call r does.
SameOutcome(r) == last'.err = r.err /\ heap' = r.h

\* C20: from_summaries called on a frozen distribution returns and changes
\* nothing, the summaries included; a from_summaries on the unfrozen
\* distribution commits every batch summarized since the last commit, whether
\* it was summarized before, during or after a freeze.
C20_FrozenCommitKeepsSummaries ==
    [][last'.op = "from_summaries"
       => IF heap[1].frozen
          THEN last'.err = "none" /\ heap' = heap
          ELSE SameOutcome(from_summaries(
                               Replay(Emptied(heap), ghost.items, ghost.weights),
                               1, last'.inertia,
                               heap[1].name \notin BaseFromSummaries))]_vars

C20_Witness ==
    /\ pc = "released"
    /\ last.op = "from_summaries"
    /\ last.err = "none"
    /\ heap[1].name = "NormalDistribution"
    /\ heap[1].parameters[1] = R(2)
    /\ heap[1].summaries = <<>>

\* ------------------------------------------------- the order of batches
Backwards(s) == [i \in 1..Len(s) |-> s[Len(s) + 1 - i]]

Summarizing ==
    {"UniformDistribution", "NormalDistribution", "LogNormalDistribution",
     "ExponentialDistribution", "DiscreteDistribution"}

\* The last step ended as the call r does, with the parameters of r.
SameParameters(r) == last'.err = r.err /\ heap'[1].parameters = r.h[1].parameters

\* C21: for Uniform, Normal, LogNormal, Exponential and Discrete the commit
\* does not depend on the order of the summarize calls: from_summaries ends
\* with the parameters it gives when the same batches were summarized in the
\* opposite order from the same starting state.
C21_BatchOrderIrrelevant ==
    [][(/\ last'.op = "from_summaries"
        /\ ~heap[1].frozen
        /\ heap[1].name \in Summarizing)
       => SameParameters(from_summaries(
                            Replay(Emptied(heap), Backwards(ghost.items),
                                   Backwards(ghost.weights)),
                            1, last'.inertia, TRUE))]_vars

\* Two different batches were committed: three items of weight 1 take two
\* batches of at most MaxLen items.
C21_Witness ==
    /\ last.op = "from_summaries"
    /\ last.err = "none"
    /\ heap[1].name = "DiscreteDistribution"
    /\ heap[1].parameters =
          <<[c \in {R(1), R(2)} |-> IF c = R(1) THEN Rat(2, 3) ELSE Rat(1, 3)]>>

\* ------------------------------------------------------ what copy() carries
\* The classes whose constructor has frozen=True as its default.
FrozenByDefault == {"ExtremeValueDistribution", "LambdaDistribution"}

\* C22: copy() carries over only parameters: the copy's frozen flag is the
\* default of the class's constructor, not the original's flag, its summaries
\* are the empty accumulator, not the original's, and the original stays as
\* it was.
C22_CopyCarriesParametersOnly ==
    [][(last'.op = "copy" /\ last'.err = "none")
       => /\ heap'[TheCopy].name = heap[1].name
          /\ heap'[TheCopy].frozen = (heap[1].name \in FrozenByDefault)
          /\ heap'[TheCopy].summaries = EmptyAccumulator(heap[1])
          /\ heap'[1] = heap[1]]_vars

\* The copy of a frozen Normal distribution with a batch summarized.
C22_Witness ==
    /\ last.op = "copy"
    /\ last.err = "none"
    /\ heap[1].name = "NormalDistribution"
    /\ heap[1].frozen
    /\ Len(heap[1].summaries) > 0
    /\ ~heap[TheCopy].frozen
    /\ heap[TheCopy].summaries = <<>>
    /\ heap[TheCopy].parameters = heap[1].parameters

====
